---- MODULE Spec2Model ----
(***************************************************************************)
(* A model of src/flat.rs: the strided buffer descriptor FlatSamples, the  *)
(* validating constructors as_view / as_view_mut, and pixel access through *)
(* View and ViewMut.                                                       *)
(*                                                                         *)
(* usize is modelled as an unsigned word of UsizeBits bits; indices into   *)
(* the sample buffer are 0-based as in the source, the buffer itself is a  *)
(* TLA+ sequence, so the sample with index i is samples[i + 1].            *)
(***************************************************************************)
EXTENDS Integers, Sequences, FiniteSets, TLC

VARIABLES
    samples,          \* FlatSamples::samples, the linear container
    channels,         \* FlatSamples::channels (u8)
    channel_stride,   \* FlatSamples::channel_stride (usize)
    width,            \* FlatSamples::width (u32)
    width_stride,     \* FlatSamples::width_stride (usize)
    height,           \* FlatSamples::height (u32)
    height_stride,    \* FlatSamples::height_stride (usize)
    view,             \* which borrow of the descriptor is alive: "none", "View", "ViewMut"
    channel_count,    \* P::channel_count() of the pixel type of the live view (0: no view)
    result,           \* the outcome of the last call
    written,          \* history: the pixel last stored at (x, y) through the live ViewMut
    iter,             \* position of the pixels_mut().enumerate() loop of tests::mutable_view
    nput              \* number of put_pixel calls made so far

vars == <<samples, channels, channel_stride, width, width_stride, height,
          height_stride, view, channel_count, result, written, iter, nput>>

geometry == <<channels, channel_stride, width, width_stride, height, height_stride>>

----------------------------------------------------------------------------
(* Bounds of the model.                                                    *)

UsizeBits == 5

MaxCount == 2

MaxLen == 4

MaxPuts == 2

UsizeMax == 2^UsizeBits - 1

\* Strides are arbitrary usize values: the small ones, and the largest.
Strides == {0, 1, 2, UsizeMax}

Counts == 0..MaxCount

\* The channel counts of the pixel types (Luma 1, LumaA 2, Rgb 3, ...).
PixelTypes == 1..MaxCount

----------------------------------------------------------------------------
(* Option<usize>, checked and wrapping arithmetic.                         *)

None == <<>>

Some(v) == <<v>>

unwrap_or(o, d) == IF o = None THEN d ELSE o[1]

checked_mul(a, b) == IF a * b > UsizeMax THEN None ELSE Some(a * b)

checked_add(a, b) == IF a + b > UsizeMax THEN None ELSE Some(a + b)

\* Option::and_then(|b| b.checked_add(v))
and_then_add(o, v) == IF o = None THEN None ELSE checked_add(o[1], v)

saturating_sub(a, b) == IF a < b THEN 0 ELSE a - b

\* Release-build arithmetic on usize wraps.
Wrap(n) == n % (UsizeMax + 1)

----------------------------------------------------------------------------
(* FlatSamples                                                             *)

in_bounds(x, y, channel) == x < width /\ y < height /\ channel < channels

\* A slip in index: wrapping arithmetic in place of the checked one.
index_wrapping(x, y, channel) ==
    IF ~in_bounds(x, y, channel) THEN None
    ELSE Some(Wrap(channel * channel_stride + x * width_stride + y * height_stride))

index(x, y, channel) ==
    IF ~in_bounds(x, y, channel) THEN None
    ELSE LET idx_c == checked_mul(channel, channel_stride)
             idx_x == checked_mul(x, width_stride)
             idx_y == checked_mul(y, height_stride)
         IN  IF idx_c = None \/ idx_x = None \/ idx_y = None THEN None
             ELSE and_then_add(and_then_add(and_then_add(Some(0), idx_c[1]),
                                            idx_x[1]), idx_y[1])

max_index ==
    index(saturating_sub(width, 1), saturating_sub(height, 1),
          saturating_sub(channels, 1))

\* The unchecked sum of in_bounds_index, before it is cut to the word.
in_bounds_exact(x, y, c) ==
    (y * height_stride) + (x * width_stride) + (c * channel_stride)

\* A slip in in_bounds_index: the strides of x and y exchanged.
in_bounds_index_swapped(x, y, c) ==
    Wrap((y * width_stride) + (x * height_stride) + (c * channel_stride))

in_bounds_index(x, y, c) == Wrap(in_bounds_exact(x, y, c))

\* struct Dim(stride, count) with the derived lexicographic order.
Dim(s, n) == <<s, n>>

stride(d) == d[1]

count(d) == d[2]

len(d) == checked_mul(stride(d), count(d))

DimLe(a, b) == a[1] < b[1] \/ (a[1] = b[1] /\ a[2] <= b[2])

DimMax(a, b) == IF DimLe(a, b) THEN b ELSE a

DimMin(a, b) == IF DimLe(a, b) THEN a ELSE b

grouped ==
    <<Dim(channel_stride, channels), Dim(width_stride, width),
      Dim(height_stride, height)>>

min_dim == DimMin(DimMin(grouped[1], grouped[2]), grouped[3])

max_dim == DimMax(DimMax(grouped[1], grouped[2]), grouped[3])

mid_dim == DimMin(DimMax(grouped[1], grouped[2]), DimMax(grouped[1], grouped[3]))

\* assert!(min_dim.stride() <= mid_dim.stride() && mid_dim.stride() <= max_dim.stride())
dims_asserted ==
    stride(min_dim) <= stride(mid_dim) /\ stride(mid_dim) <= stride(max_dim)

has_aliased_samples ==
    IF len(min_dim) = None THEN TRUE
    ELSE IF len(mid_dim) = None THEN TRUE
    ELSE IF len(max_dim) = None THEN TRUE
    ELSE len(min_dim)[1] > stride(mid_dim) \/ len(mid_dim)[1] > stride(max_dim)

----------------------------------------------------------------------------
(* Results of calls.                                                       *)

Ok(op, args, v) == [op |-> op, args |-> args, kind |-> "ok", val |-> v]

Err(op, args, e) == [op |-> op, args |-> args, kind |-> "err", val |-> e]

Panic(op, args, why) == [op |-> op, args |-> args, kind |-> "panic", val |-> why]

NoResult == [op |-> "none", args |-> <<>>, kind |-> "none", val |-> <<>>]

Panicked == result.kind = "panic"

NoPixel == <<>>

NothingWritten == [xy \in (0..(width - 1)) \X (0..(height - 1)) |-> NoPixel]

----------------------------------------------------------------------------
(* View construction.  The value is "Ok" or the name of the Error.        *)

\* Slips in as_view: the color check first; `<` for `<=` in the length check.
as_view_color_first(p) ==
    IF channels # p THEN "WrongColor"
    ELSE IF Len(samples) <= unwrap_or(max_index, UsizeMax) THEN "TooLarge"
    ELSE "Ok"

as_view_off_by_one(p) ==
    IF Len(samples) < unwrap_or(max_index, UsizeMax) THEN "TooLarge"
    ELSE IF channels # p THEN "WrongColor"
    ELSE "Ok"

as_view(p) ==
    IF Len(samples) <= unwrap_or(max_index, UsizeMax) THEN "TooLarge"
    ELSE IF channels # p THEN "WrongColor"
    ELSE "Ok"

\* A slip in as_view_mut: the pixel-packing check before the aliasing check.
as_view_mut_packed_first(p) ==
    IF channel_stride # 1 THEN "PixelPacked"
    ELSE IF has_aliased_samples THEN "Unaliased"
    ELSE IF Len(samples) <= unwrap_or(max_index, UsizeMax) THEN "TooLarge"
    ELSE "Ok"

as_view_mut(p) ==
    IF has_aliased_samples THEN "Unaliased"
    ELSE IF channel_stride # 1 THEN "PixelPacked"
    ELSE IF Len(samples) <= unwrap_or(max_index, UsizeMax) THEN "TooLarge"
    ELSE "Ok"

----------------------------------------------------------------------------
(* Pixel access.  `checks` is the build's overflow-checks setting: with it *)
(* an overflowing usize operation panics, without it the value wraps.      *)

\* The index get_pixel reads for channel c (c counted from 0).
sample_index(base_index, c) == Wrap(base_index + c * channel_stride)

\* Channel c cannot be read: its index computation overflows, or image[index] is out of range.
read_fails(base_index, c, checks) ==
    \/ checks /\ (c * channel_stride > UsizeMax \/ base_index + c * channel_stride > UsizeMax)
    \/ sample_index(base_index, c) >= Len(samples)

get_pixel(x, y, checks) ==
    IF ~in_bounds(x, y, 0) THEN Panic("get_pixel", <<x, y>>, "out of bounds")
    ELSE IF checks /\ in_bounds_exact(x, y, 0) > UsizeMax
         THEN Panic("get_pixel", <<x, y>>, "overflow")
    ELSE LET base_index == in_bounds_index(x, y, 0)
             cs == 0..(channel_count - 1)
         IN  IF \E c \in cs : read_fails(base_index, c, checks)
             THEN Panic("get_pixel", <<x, y>>, "sample")
             ELSE Ok("get_pixel", <<x, y>>,
                     [c \in 1..channel_count |->
                         samples[sample_index(base_index, c - 1) + 1]])

\* The slot get_pixel_mut hands out: the range base_index..base_index + channel_count.
get_pixel_mut(x, y, checks) ==
    IF ~in_bounds(x, y, 0) THEN Panic("get_pixel_mut", <<x, y>>, "out of bounds")
    ELSE IF checks /\ in_bounds_exact(x, y, 0) > UsizeMax
         THEN Panic("get_pixel_mut", <<x, y>>, "overflow")
    ELSE LET base_index == in_bounds_index(x, y, 0)
             end == base_index + channel_count
         IN  IF checks /\ end > UsizeMax
             THEN Panic("get_pixel_mut", <<x, y>>, "overflow")
             ELSE IF Wrap(end) < base_index \/ Wrap(end) > Len(samples)
             THEN Panic("get_pixel_mut", <<x, y>>, "slice")
             ELSE Ok("get_pixel_mut", <<x, y>>, <<base_index, Wrap(end)>>)

\* *slot = pixel
store(slot, pixel) ==
    [i \in 1..Len(samples) |->
        IF slot[1] <= i - 1 /\ i - 1 < slot[2] THEN pixel[i - slot[1]] ELSE samples[i]]

\* The pixel the k-th put_pixel call stores.
NewPixel(k) == [c \in 1..channel_count |-> 40 + 10 * k + c]

\* The position the idx-th step of pixels_mut() visits: rows outermost.
RowMajor(idx) == <<idx % width, idx \div width>>

----------------------------------------------------------------------------
(* The descriptor is built by the caller from raw geometry.                *)

Descriptor ==
    /\ channels \in Counts
    /\ channel_stride \in Strides
    /\ width \in Counts
    /\ width_stride \in Strides
    /\ height \in Counts
    /\ height_stride \in Strides

\* The descriptor of tests::mutable_view.
MutableViewTest ==
    /\ samples = [i \in 1..18 |-> 0]
    /\ channels = 2
    /\ channel_stride = 1
    /\ width = 3
    /\ width_stride = 2
    /\ height = 3
    /\ height_stride = 6

NoView ==
    /\ view = "none"
    /\ channel_count = 0
    /\ result = NoResult
    /\ written = <<>>
    /\ iter = 0
    /\ nput = 0

Init ==
    /\ \/ /\ Descriptor
          /\ \E n \in 0..MaxLen : samples = [i \in 1..n |-> i - 1]
       \/ MutableViewTest
    /\ NoView

InitFlat ==
    /\ Descriptor
    /\ samples = <<>>
    /\ NoView

----------------------------------------------------------------------------
(* Calls on the descriptor.                                                *)

Index ==
    /\ ~Panicked
    /\ view # "ViewMut"
    /\ \E x \in 0..width, y \in 0..height, c \in 0..channels :
          result' = Ok("index", <<x, y, c>>, index(x, y, c))
    /\ UNCHANGED <<samples, geometry, view, channel_count, written, iter, nput>>

InBounds ==
    /\ ~Panicked
    /\ view # "ViewMut"
    /\ \E x \in 0..width, y \in 0..height, c \in 0..channels :
          result' = Ok("in_bounds", <<x, y, c>>, in_bounds(x, y, c))
    /\ UNCHANGED <<samples, geometry, view, channel_count, written, iter, nput>>

MaxIndex ==
    /\ ~Panicked
    /\ view # "ViewMut"
    /\ result' = Ok("max_index", <<>>, max_index)
    /\ UNCHANGED <<samples, geometry, view, channel_count, written, iter, nput>>

HasAliasedSamples ==
    /\ ~Panicked
    /\ view # "ViewMut"
    /\ result' = IF dims_asserted
                 THEN Ok("has_aliased_samples", <<>>, has_aliased_samples)
                 ELSE Panic("has_aliased_samples", <<>>, "assert")
    /\ UNCHANGED <<samples, geometry, view, channel_count, written, iter, nput>>

AsView ==
    /\ ~Panicked
    /\ view = "none"
    /\ \E p \in PixelTypes :
          LET r == as_view(p)
          IN  IF r = "Ok"
              THEN /\ view' = "View"
                   /\ channel_count' = p
                   /\ result' = Ok("as_view", <<p>>, "View")
              ELSE /\ result' = Err("as_view", <<p>>, r)
                   /\ UNCHANGED <<view, channel_count>>
    /\ UNCHANGED <<samples, geometry, written, iter, nput>>

AsViewMut ==
    /\ ~Panicked
    /\ view = "none"
    /\ \E p \in PixelTypes :
          IF ~dims_asserted
          THEN /\ result' = Panic("as_view_mut", <<p>>, "assert")
               /\ UNCHANGED <<view, channel_count, written>>
          ELSE LET r == as_view_mut(p)
               IN  IF r = "Ok"
                   THEN /\ view' = "ViewMut"
                        /\ channel_count' = p
                        /\ written' = NothingWritten
                        /\ result' = Ok("as_view_mut", <<p>>, "ViewMut")
                   ELSE /\ result' = Err("as_view_mut", <<p>>, r)
                        /\ UNCHANGED <<view, channel_count, written>>
    /\ UNCHANGED <<samples, geometry, iter, nput>>

----------------------------------------------------------------------------
(* Calls on a view.                                                        *)

GetPixel ==
    /\ ~Panicked
    /\ view \in {"View", "ViewMut"}
    /\ \E x \in 0..width, y \in 0..height :
          result' \in {get_pixel(x, y, checks) : checks \in BOOLEAN}
    /\ UNCHANGED <<samples, geometry, view, channel_count, written, iter, nput>>

GetPixelMut ==
    /\ ~Panicked
    /\ view = "ViewMut"
    /\ \E x \in 0..width, y \in 0..height :
          result' \in {get_pixel_mut(x, y, checks) : checks \in BOOLEAN}
    /\ UNCHANGED <<samples, geometry, view, channel_count, written, iter, nput>>

\* *self.get_pixel_mut(x, y) = pixel
put(x, y, pixel) ==
    \E slot \in {get_pixel_mut(x, y, checks) : checks \in BOOLEAN} :
        IF slot.kind = "panic"
        THEN /\ result' = [slot EXCEPT !.op = "put_pixel"]
             /\ UNCHANGED <<samples, written>>
        ELSE /\ samples' = store(slot.val, pixel)
             /\ written' = [written EXCEPT ![<<x, y>>] = pixel]
             /\ result' = Ok("put_pixel", <<x, y>>, pixel)

PutPixel ==
    /\ ~Panicked
    /\ view = "ViewMut"
    /\ iter = 0
    /\ nput < MaxPuts
    /\ nput' = nput + 1
    /\ \E x \in 0..width, y \in 0..height :
          put(x, y, NewPixel(nput))
    /\ UNCHANGED <<geometry, view, channel_count, iter>>

\* One step of tests::mutable_view:
\*   view.pixels_mut().enumerate().map(|(idx, (_, _, pixel))| *pixel = LumaA([2*idx, 2*idx + 1]))
PixelsMutNext ==
    /\ ~Panicked
    /\ view = "ViewMut"
    /\ channel_count = 2
    /\ nput = 0
    /\ iter < width * height
    /\ iter' = iter + 1
    /\ put(RowMajor(iter)[1], RowMajor(iter)[2], <<2 * iter, 2 * iter + 1>>)
    /\ UNCHANGED <<geometry, view, channel_count, nput>>

----------------------------------------------------------------------------

Next ==
    \/ MaxIndex
    \/ HasAliasedSamples
    \/ AsView
    \/ AsViewMut
    \/ GetPixel
    \/ GetPixelMut
    \/ PutPixel
    \/ PixelsMutNext

Spec == Init /\ [][Next]_vars

\* Construction and reading only: no call that writes to the buffer.
NextView ==
    \/ MaxIndex
    \/ HasAliasedSamples
    \/ AsView
    \/ AsViewMut
    \/ GetPixel

SpecView == Init /\ [][NextView]_vars

\* The calls on the descriptor alone.
NextFlat ==
    \/ Index
    \/ InBounds
    \/ MaxIndex
    \/ HasAliasedSamples

SpecFlat == InitFlat /\ [][NextFlat]_vars

----------------------------------------------------------------------------
(* Vocabulary of the properties.                                           *)

\* The in-bounds coordinate triples (x, y, c).
Coords == (0..(width - 1)) \X (0..(height - 1)) \X (0..(channels - 1))

\* The in-bounds pixel positions (x, y).
Pixels == (0..(width - 1)) \X (0..(height - 1))

\* x*width_stride + y*height_stride + c*channel_stride over the integers.
Linear(x, y, c) == x * width_stride + y * height_stride + c * channel_stride

\* Two distinct in-bounds coordinate triples resolve to the same index.
TrulyAliased ==
    \E t \in Coords, u \in Coords :
        /\ t # u
        /\ index(t[1], t[2], t[3]) # None
        /\ index(t[1], t[2], t[3]) = index(u[1], u[2], u[3])

Degenerate == width = 0 \/ height = 0 \/ channels = 0

\* The index of (width-1, height-1, channels-1) over the integers.
LastIndex == Linear(width - 1, height - 1, channels - 1)

Failed(e) == result.kind = "err" /\ result.val = e

\* The three axes in ascending order of stride (equal strides: by count).
Ascending ==
    CHOOSE s \in [1..3 -> {grouped[1], grouped[2], grouped[3]}] :
        /\ DimLe(s[1], s[2]) /\ DimLe(s[2], s[3])
        /\ \E f \in [1..3 -> 1..3] :
              /\ \A i \in 1..3 : \E j \in 1..3 : f[j] = i
              /\ \A i \in 1..3 : s[i] = grouped[f[i]]

Footprint(d) == d[1] * d[2]

\* Each axis's memory extent fits below the next larger stride.
Nested ==
    /\ \A i \in 1..3 : Footprint(Ascending[i]) <= UsizeMax
    /\ Footprint(Ascending[1]) <= Ascending[2][1]
    /\ Footprint(Ascending[2]) <= Ascending[3][1]

----------------------------------------------------------------------------
(* C1: whenever two distinct in-bounds coordinate triples resolve to the   *)
(* same index, has_aliased_samples returns true, and as_view_mut fails     *)
(* with NormalFormRequired(Unaliased).                                     *)
C1_NoFalseNegative ==
    TrulyAliased =>
        /\ result.op = "has_aliased_samples" => result.kind = "ok" /\ result.val = TRUE
        /\ result.op = "as_view_mut" => Failed("Unaliased")

(* C2: index(x, y, c) is exactly x*width_stride + y*height_stride +        *)
(* c*channel_stride when the coordinate is in bounds and no product and no *)
(* running sum exceeds the word maximum; in every other case it is None,   *)
(* never a wrapped value.                                                  *)
C2_IndexExact ==
    result.op = "index" =>
        LET x == result.args[1]
            y == result.args[2]
            c == result.args[3]
            fits == /\ x * width_stride <= UsizeMax
                    /\ y * height_stride <= UsizeMax
                    /\ c * channel_stride <= UsizeMax
                    /\ c * channel_stride + x * width_stride <= UsizeMax
                    /\ Linear(x, y, c) <= UsizeMax
        IN  IF x < width /\ y < height /\ c < channels /\ fits
            THEN result.val = Some(Linear(x, y, c))
            ELSE result.val = None

C2_Witness ==
    /\ result.op = "index"
    /\ result.args[1] > 0 /\ result.args[2] > 0 /\ result.args[3] > 0
    /\ result.val # None
    /\ result.val[1] > 0
    /\ height_stride = 0

(* C3: with width, height or channels zero, max_index does not crash and   *)
(* view construction still succeeds (as_view when the channel count        *)
(* matches, as_view_mut when the layout is unaliased and pixel-packed).    *)
C3_DegenerateViews ==
    Degenerate =>
        /\ result.op = "max_index" => result.kind = "ok"
        /\ result.op = "as_view" /\ channels = result.args[1] => result.kind = "ok"
        /\ (result.op = "as_view_mut" /\ channels = result.args[1]
              /\ ~TrulyAliased /\ channel_stride = 1) => result.kind = "ok"

(* C4: as_view on a descriptor whose channel count differs from the pixel  *)
(* type's fails with WrongColor for every buffer length.                   *)
C4_WrongColorAnyLength ==
    result.op = "as_view" /\ channels # result.args[1] => Failed("WrongColor")

(* C4, amended: as_view on a descriptor whose channel count differs from   *)
(* the pixel type's never succeeds; it fails with WrongColor when the      *)
(* buffer is longer than the maximum index, and with TooLarge when the     *)
(* buffer length is at most the maximum index or there is no maximum index.*)
C4_WrongColorAfterLength ==
    result.op = "as_view" /\ channels # result.args[1] =>
        IF ~Degenerate /\ LastIndex <= UsizeMax /\ Len(samples) > LastIndex
        THEN Failed("WrongColor")
        ELSE Failed("TooLarge")

C4_Witness ==
    /\ result.op = "as_view"
    /\ channels # result.args[1]
    /\ Failed("WrongColor")
    /\ Len(samples) = LastIndex + 1

\* The slot of pixel (x, y): the indices base .. base + P's channel count.
Slot(x, y) == Linear(x, y, 0)..(Linear(x, y, 0) + channel_count - 1)

(* C5: on a mutable view, for every in-bounds (x, y) the slot handed out   *)
(* by get_pixel_mut is base .. base + P's channel count, lies entirely     *)
(* inside the buffer, and is disjoint from the slot of every other         *)
(* in-bounds pixel.                                                        *)
C5_SlotsInsideAndDisjoint ==
    (view = "ViewMut" /\ result.op = "get_pixel_mut" /\ result.args \in Pixels) =>
        LET x == result.args[1]
            y == result.args[2]
        IN  /\ result.kind = "ok"
            /\ result.val = <<Linear(x, y, 0), Linear(x, y, 0) + channel_count>>
            /\ Slot(x, y) \subseteq 0..(Len(samples) - 1)
            /\ \A q \in Pixels \ {result.args} : Slot(x, y) \cap Slot(q[1], q[2]) = {}

(* C6: on a read-only view, get_pixel at an in-bounds (x, y) computes its  *)
(* base index without overflow, reads only indices below the buffer        *)
(* length, and returns exactly the samples at index(x, y, c); with all     *)
(* strides zero every position yields the first sample in every channel.   *)
C6_GetPixelSafe ==
    (view = "View" /\ result.op = "get_pixel" /\ result.args \in Pixels) =>
        LET x == result.args[1]
            y == result.args[2]
        IN  /\ result.kind = "ok"
            /\ Linear(x, y, 0) <= UsizeMax
            /\ \A c \in 0..(channel_count - 1) :
                  /\ Linear(x, y, c) < Len(samples)
                  /\ index(x, y, c) = Some(Linear(x, y, c))
                  /\ result.val[c + 1] = samples[Linear(x, y, c) + 1]
            /\ Len(result.val) = channel_count
            /\ (channel_stride = 0 /\ width_stride = 0 /\ height_stride = 0) =>
                  \A c \in 1..channel_count : result.val[c] = samples[1]

C6_Witness ==
    /\ view = "View"
    /\ result.op = "get_pixel"
    /\ result.kind = "ok"
    /\ result.args = <<1, 1>>
    /\ channel_count = 2
    /\ width_stride # height_stride
    /\ result.val[1] # result.val[2]

(* C7: as_view fails with TooLarge whenever the buffer length is at most   *)
(* the maximum index and whenever the maximum index overflows; it passes   *)
(* the length check only when the length is strictly greater than the      *)
(* maximum index.                                                          *)
C7_TooLarge ==
    result.op = "as_view" =>
        /\ (~Degenerate /\ LastIndex > UsizeMax) => Failed("TooLarge")
        /\ (~Degenerate /\ Len(samples) <= LastIndex) => Failed("TooLarge")
        /\ ~Failed("TooLarge") =>
              ~Degenerate /\ LastIndex <= UsizeMax /\ Len(samples) > LastIndex

C7_Witness ==
    /\ result.op = "as_view"
    /\ Failed("TooLarge")
    /\ ~Degenerate
    /\ Len(samples) = LastIndex
    /\ channels = result.args[1]

(* C8: after any sequence of put_pixel calls on a mutable view whose       *)
(* channel count equals the pixel type's, get_pixel(x, y) returns the      *)
(* pixel last written to (x, y).                                           *)
C8_ReadsLastWritten ==
    (view = "ViewMut" /\ channels = channel_count /\ result.op = "get_pixel"
       /\ result.args \in Pixels /\ written[result.args] # NoPixel) =>
        result.kind = "ok" /\ result.val = written[result.args]

(* C8, first part: put_pixel at an in-bounds (x, y) overwrites exactly the *)
(* samples index(x, y, 0) .. index(x, y, 0) + channels with the pixel and  *)
(* leaves every other sample unchanged.                                    *)
C8_PutFrame ==
    [][(view = "ViewMut" /\ channels = channel_count /\ result'.op = "put_pixel"
          /\ result'.args \in Pixels /\ (nput' # nput \/ iter' # iter)) =>
        /\ result'.kind = "ok"
        /\ Len(samples') = Len(samples)
        /\ \A i \in 0..(Len(samples) - 1) :
              LET base == Linear(result'.args[1], result'.args[2], 0)
              IN  samples'[i + 1] =
                    IF base <= i /\ i < base + channels
                    THEN result'.val[i - base + 1]
                    ELSE samples[i + 1]]_vars

(* C8, last part: on the layout of tests::mutable_view, writing pixel i as *)
(* [2i, 2i+1] in row-major order leaves the buffer holding 0..17.          *)
C8_MutableViewTest ==
    (Len(samples) = 18 /\ view = "ViewMut" /\ channel_count = 2 /\ iter = 9) =>
        samples = [i \in 1..18 |-> i - 1]

(* C9: has_aliased_samples returns false exactly when, with the three axes *)
(* in ascending order of stride, no footprint overflows, the footprint of  *)
(* the smallest-stride axis is at most the stride of the middle axis, and  *)
(* the footprint of the middle axis at most the stride of the largest,     *)
(* whichever of channel, width or height has the largest stride.           *)
C9_NestedFootprints ==
    result.op = "has_aliased_samples" =>
        result.kind = "ok" /\ result.val = ~Nested

(* C10: as_view_mut checks aliasing, then pixel-packing, then length: it   *)
(* fails with Unaliased whenever has_aliased_samples is true, with         *)
(* PixelPacked only when the layout is reported unaliased and              *)
(* channel_stride is not 1, with TooLarge only when both earlier checks    *)
(* pass and the length is at most the maximum index (or there is none),    *)
(* and succeeds otherwise.                                                 *)
C10_CheckOrder ==
    result.op = "as_view_mut" =>
        LET aliased == has_aliased_samples
            packed == channel_stride = 1
            short == Degenerate \/ LastIndex > UsizeMax \/ Len(samples) <= LastIndex
        IN  /\ aliased => Failed("Unaliased")
            /\ Failed("Unaliased") => aliased
            /\ Failed("PixelPacked") <=> (~aliased /\ ~packed)
            /\ Failed("TooLarge") <=> (~aliased /\ packed /\ short)
            /\ result.kind = "ok" <=> (~aliased /\ packed /\ ~short)

C10_Witness ==
    /\ result.op = "as_view_mut"
    /\ Failed("Unaliased")
    /\ channel_stride # 1
    /\ ~Degenerate
    /\ Len(samples) <= LastIndex

\* The assertion of has_aliased_samples cannot fail.
AssertHolds == dims_asserted

====
